---- MODULE Spec2Model ----
(***************************************************************************)
(* The three numerical kernels of accelerating_python.ipynb:               *)
(*   primes(kmax)                      trial-division prime generator      *)
(*   walk_numba(n) / step_numba()      random walk with reset              *)
(*   mandelbrot_python / _cython       escape-time grid                    *)
(* Each kernel is a sequential program; pc is the position in its body and *)
(* the kernel's local variables live in a frame record (pr, wk, mb) whose  *)
(* fields carry the names of the source.                                   *)
(***************************************************************************)
EXTENDS Integers, Sequences, FiniteSets, TLC

VARIABLES
    prog,    \* which kernel the caller runs: "primes", "walk", "mandelbrot"
    pc,      \* position inside the running kernel
    arg,     \* the argument(s) the caller passed (the callee may rebind its copy)
    pr,      \* frame of primes
    wk,      \* frame of walk_numba
    mb,      \* frame of mandelbrot_python / mandelbrot_cython
    call,    \* 1 during the caller's first call, 2 during its second
    first    \* what the caller kept from the first call

vars == <<prog, pc, arg, pr, wk, mb, call, first>>

(***************************************************************************)
(* Bounds                                                                  *)
(***************************************************************************)
MaxKmax == 12
MaxN == 11
MaxSize == 6
MaxIter == 5

(***************************************************************************)
(* IEEE-754 binary64 arithmetic (Python float, NumPy float64, C double).   *)
(* A finite double is sign * m * 2^e with m an odd natural below 2^53 (or  *)
(* zero).  TLC's integers have 32 bits, so m is kept as a little-endian    *)
(* sequence of base-2^15 limbs without leading zero limbs (<<>> is 0).     *)
(* Every operation computes the exact result and rounds it to 53           *)
(* significant bits, ties to even, as the hardware does.  Exponent         *)
(* overflow and underflow are out of reach of the kernels' values          *)
(* (magnitudes between 2^-200 and 2^14) and are not modelled.              *)
(***************************************************************************)
Base == 32768
LimbBits == 15
Precision == 53

RECURSIVE Pow2(_)
Pow2(k) == IF k = 0 THEN 1 ELSE 2 * Pow2(k - 1)

RECURSIVE BnNorm(_)
BnNorm(a) ==
    IF a = <<>> THEN <<>>
    ELSE IF a[Len(a)] = 0 THEN BnNorm(SubSeq(a, 1, Len(a) - 1)) ELSE a

RECURSIVE BnFromInt(_)
BnFromInt(n) == IF n = 0 THEN <<>> ELSE <<n % Base>> \o BnFromInt(n \div Base)

Lo(a) == IF a = <<>> THEN 0 ELSE Head(a)
Rest(a) == IF a = <<>> THEN <<>> ELSE Tail(a)

RECURSIVE BnAddC(_, _, _)
BnAddC(a, b, c) ==
    IF a = <<>> /\ b = <<>>
    THEN IF c = 0 THEN <<>> ELSE <<c>>
    ELSE LET x == Lo(a) + Lo(b) + c
         IN  <<x % Base>> \o BnAddC(Rest(a), Rest(b), x \div Base)

BnAdd(a, b) == BnAddC(a, b, 0)

\* a - b - c for a >= b + c
RECURSIVE BnSubC(_, _, _)
BnSubC(a, b, c) ==
    IF a = <<>> THEN <<>>
    ELSE LET x == Lo(a) - Lo(b) - c
         IN  IF x < 0
             THEN <<x + Base>> \o BnSubC(Rest(a), Rest(b), 1)
             ELSE <<x>> \o BnSubC(Rest(a), Rest(b), 0)

BnSub(a, b) == BnNorm(BnSubC(a, b, 0))

\* -1, 0, 1 as a < b, a = b, a > b (both without leading zero limbs)
RECURSIVE BnCmpAt(_, _, _)
BnCmpAt(a, b, i) ==
    IF i = 0 THEN 0
    ELSE IF a[i] < b[i] THEN 0 - 1
    ELSE IF a[i] > b[i] THEN 1
    ELSE BnCmpAt(a, b, i - 1)

BnCmp(a, b) ==
    IF Len(a) < Len(b) THEN 0 - 1
    ELSE IF Len(a) > Len(b) THEN 1
    ELSE BnCmpAt(a, b, Len(a))

\* a * d + c for a limb d
RECURSIVE BnMulSmallC(_, _, _)
BnMulSmallC(a, d, c) ==
    IF a = <<>>
    THEN IF c = 0 THEN <<>> ELSE <<c>>
    ELSE LET x == Head(a) * d + c
         IN  <<x % Base>> \o BnMulSmallC(Tail(a), d, x \div Base)

BnMulSmall(a, d) == IF d = 0 THEN <<>> ELSE BnMulSmallC(a, d, 0)

RECURSIVE BnMul(_, _)
BnMul(a, b) ==
    IF a = <<>> \/ b = <<>> THEN <<>>
    ELSE LET hi == BnMul(a, Tail(b))
         IN  BnAdd(BnMulSmall(a, Head(b)),
                   IF hi = <<>> THEN <<>> ELSE <<0>> \o hi)

\* quotient and remainder of a by a small d (0 < d < Base), top limb first
RECURSIVE BnDivSmallAt(_, _, _, _)
BnDivSmallAt(a, d, i, r) ==
    IF i = 0 THEN [q |-> <<>>, r |-> r]
    ELSE LET x == r * Base + a[i]
             t == BnDivSmallAt(a, d, i - 1, x % d)
         IN  [q |-> Append(t.q, x \div d), r |-> t.r]

BnDivSmall(a, d) ==
    LET t == BnDivSmallAt(a, d, Len(a), 0) IN [q |-> BnNorm(t.q), r |-> t.r]

Zeros(k) == [x \in 1..k |-> 0]

\* a * 2^k
BnShl(a, k) ==
    IF a = <<>> THEN <<>>
    ELSE Zeros(k \div LimbBits) \o BnMulSmall(a, Pow2(k % LimbBits))

\* floor(a / 2^k)
BnShr(a, k) ==
    IF k \div LimbBits >= Len(a) THEN <<>>
    ELSE BnDivSmall(SubSeq(a, k \div LimbBits + 1, Len(a)), Pow2(k % LimbBits)).q

RECURSIVE BitLenInt(_)
BitLenInt(n) == IF n = 0 THEN 0 ELSE 1 + BitLenInt(n \div 2)

BnBitLen(a) ==
    IF a = <<>> THEN 0 ELSE (Len(a) - 1) * LimbBits + BitLenInt(a[Len(a)])

BnOdd(a) == a # <<>> /\ a[1] % 2 = 1

\* number of trailing zero bits of a # 0
RECURSIVE TzInt(_)
TzInt(n) == IF n % 2 = 1 THEN 0 ELSE 1 + TzInt(n \div 2)

RECURSIVE BnTz(_)
BnTz(a) == IF Head(a) = 0 THEN LimbBits + BnTz(Tail(a)) ELSE TzInt(Head(a))

FZero == [neg |-> FALSE, m |-> <<>>, e |-> 0]

\* the double of value (-1)^neg * m * 2^e for m below 2^53: odd mantissa
FCanon(neg, m, e) ==
    IF m = <<>> THEN FZero
    ELSE LET z == BnTz(m) IN [neg |-> neg, m |-> BnShr(m, z), e |-> e + z]

\* round (-1)^neg * (m + s) * 2^e to the nearest double, ties to even, where
\* 0 <= s < 1 and sticky says s # 0
FRound(neg, m, e, sticky) ==
    LET len == BnBitLen(m)
    IN  IF len <= Precision
        THEN FCanon(neg, m, e)       \* len <= 53 only arises with s = 0
        ELSE LET sh   == len - Precision
                 keep == BnShr(m, sh)
                 rem  == BnSub(m, BnShl(keep, sh))
                 half == BnShl(<<1>>, sh - 1)
                 c    == BnCmp(rem, half)
                 up   == c > 0 \/ (c = 0 /\ (sticky \/ BnOdd(keep)))
             IN  FCanon(neg, IF up THEN BnAdd(keep, <<1>>) ELSE keep, e + sh)

\* int -> float (exact for |n| < 2^31)
FInt(n) == IF n < 0 THEN FCanon(TRUE, BnFromInt(0 - n), 0)
                    ELSE FCanon(FALSE, BnFromInt(n), 0)

FNeg(a) == IF a.m = <<>> THEN a ELSE [a EXCEPT !.neg = ~a.neg]

\* the exact sum of two doubles as sign and magnitude in units of 2^e
ExactSum(a, b) ==
    LET e  == IF a.e < b.e THEN a.e ELSE b.e
        x  == BnShl(a.m, a.e - e)
        y  == BnShl(b.m, b.e - e)
        c  == BnCmp(x, y)
    IN  IF a.neg = b.neg THEN [neg |-> a.neg, m |-> BnAdd(x, y), e |-> e]
        ELSE IF c = 0 THEN [neg |-> FALSE, m |-> <<>>, e |-> e]
        ELSE IF c > 0 THEN [neg |-> a.neg, m |-> BnSub(x, y), e |-> e]
        ELSE [neg |-> b.neg, m |-> BnSub(y, x), e |-> e]

\* a + b
FAdd(a, b) ==
    IF a.m = <<>> THEN b
    ELSE IF b.m = <<>> THEN a
    ELSE LET s == ExactSum(a, b) IN FRound(s.neg, s.m, s.e, FALSE)

\* a - b
FSub(a, b) == FAdd(a, FNeg(b))

\* a * b
FMul(a, b) ==
    IF a.m = <<>> \/ b.m = <<>> THEN FZero
    ELSE FRound(a.neg # b.neg, BnMul(a.m, b.m), a.e + b.e, FALSE)

\* float(p) / float(q) for integers p >= 0 and 0 < q < 2^15: the quotient
\* of p * 2^75 by q has more than 53 bits and the remainder is the sticky bit
DivShift == 75
FDivInt(p, q) ==
    LET t == BnDivSmall(BnShl(BnFromInt(p), DivShift), q)
    IN  FRound(FALSE, t.q, 0 - DivShift, t.r # 0)

\* -1, 0, 1 as a < b, a = b, a > b
FCmp(a, b) ==
    LET s == ExactSum(a, FNeg(b))
    IN  IF s.m = <<>> THEN 0 ELSE IF s.neg THEN 0 - 1 ELSE 1

FGt(a, b) == FCmp(a, b) > 0
FLe(a, b) == FCmp(a, b) <= 0

\* the locals of walk_numba before its first statement
WalkFrame(n) == [n |-> n, x |-> <<>>, dx |-> FZero, i |-> 0, x_new |-> FZero]

\* the locals of mandelbrot_* before its first statement; m is the caller's array
MandelFrame(m, size, iterations, variant) ==
    [m |-> m, size |-> size, iterations |-> iterations, variant |-> variant,
     i |-> 0, j |-> 0, n |-> 0,
     z |-> [re |-> FZero, im |-> FZero], c |-> [re |-> FZero, im |-> FZero]]

(***************************************************************************)
(* primes(kmax)                                                            *)
(***************************************************************************)
KmaxCap == 1000

\* primes, lines 537-538 (and the parameter binding): a fresh frame
PrimesFrame(kmax) ==
    [kmax |-> kmax, p |-> <<>>, result |-> <<>>, k |-> 0, n |-> 0, i |-> 0]

\* faulty variant: the cap written with a digit missing, kmax = 100
CapStepDigit(f) ==
    [pc |-> "outer",
     f  |-> [f EXCEPT !.kmax = IF f.kmax > KmaxCap THEN KmaxCap \div 10 ELSE f.kmax,
                      !.k = 0, !.n = 2]]

\* if kmax > 1000: kmax = 1000 ; k = 0 ; n = 2
CapStep(f) ==
    [pc |-> "outer",
     f  |-> [f EXCEPT !.kmax = IF f.kmax > KmaxCap THEN KmaxCap ELSE f.kmax,
                      !.k = 0, !.n = 2]]

\* while k < kmax:  (i = 0 on entry of the body; return result on exit)
OuterStep(f) ==
    IF f.k < f.kmax
    THEN [pc |-> "inner", f |-> [f EXCEPT !.i = 0]]
    ELSE [pc |-> "done", f |-> f]

\* while i < k and n % p[i] != 0: i = i + 1
\* p[i] is Python's 0-based read (p[i+1] here); a read past the end raises
\* IndexError, a zero divisor raises ZeroDivisionError.
InnerStep(f) ==
    IF f.i < f.k
    THEN IF f.i + 1 > Len(f.p)
         THEN [pc |-> "IndexError", f |-> f]
         ELSE IF f.p[f.i + 1] = 0
              THEN [pc |-> "ZeroDivisionError", f |-> f]
              ELSE IF f.n % f.p[f.i + 1] # 0
                   THEN [pc |-> "inner", f |-> [f EXCEPT !.i = f.i + 1]]
                   ELSE [pc |-> "if", f |-> f]
    ELSE [pc |-> "if", f |-> f]

\* faulty variant: the candidate advanced by 2 after a prime is found
IfStepSkip(f) ==
    [pc |-> "outer",
     f  |-> IF f.i = f.k
            THEN [f EXCEPT !.p = Append(f.p, f.n), !.k = f.k + 1,
                           !.result = Append(f.result, f.n), !.n = f.n + 2]
            ELSE [f EXCEPT !.n = f.n + 1]]

\* faulty variant: p.append(n) forgotten
IfStepNoP(f) ==
    [pc |-> "outer",
     f  |-> IF f.i = f.k
            THEN [f EXCEPT !.k = f.k + 1,
                           !.result = Append(f.result, f.n), !.n = f.n + 1]
            ELSE [f EXCEPT !.n = f.n + 1]]

\* if i == k: p.append(n); k = k + 1; result.append(n)
\* n = n + 1
IfStep(f) ==
    [pc |-> "outer",
     f  |-> IF f.i = f.k
            THEN [f EXCEPT !.p = Append(f.p, f.n), !.k = f.k + 1,
                           !.result = Append(f.result, f.n), !.n = f.n + 1]
            ELSE [f EXCEPT !.n = f.n + 1]]

PrimesStep(s) ==
    CASE s.pc = "cap"   -> CapStep(s.f)
      [] s.pc = "outer" -> OuterStep(s.f)
      [] s.pc = "inner" -> InnerStep(s.f)
      [] s.pc = "if"    -> IfStep(s.f)
      [] OTHER          -> s

\* up to cnt further statements of the body of the outer loop
RECURSIVE BodySteps(_, _)
BodySteps(s, cnt) ==
    IF cnt = 0 \/ s.pc \notin {"inner", "if"} THEN s
    ELSE BodySteps(PrimesStep(s), cnt - 1)

\* up to cnt times sixteen further statements
RECURSIVE BodyRuns(_, _)
BodyRuns(s, cnt) ==
    IF cnt = 0 \/ s.pc \notin {"inner", "if"} THEN s
    ELSE BodyRuns(BodySteps(s, 16), cnt - 1)

\* the rest of one pass through the outer loop's body, up to its next test
\* (taken in runs of 16 * 16 statements, which keeps the evaluation shallow)
RECURSIVE RunToOuter(_)
RunToOuter(s) ==
    IF s.pc \in {"inner", "if"} THEN RunToOuter(BodyRuns(s, 16)) ELSE s

Cap ==
    /\ prog = "primes" /\ pc = "cap"
    /\ \E t \in {CapStep(pr)} : pc' = t.pc /\ pr' = t.f
    /\ UNCHANGED <<prog, arg, wk, mb, call, first>>

OuterTest ==
    /\ prog = "primes" /\ pc = "outer"
    /\ \E t \in {OuterStep(pr)} : pc' = t.pc /\ pr' = t.f
    /\ UNCHANGED <<prog, arg, wk, mb, call, first>>

InnerTest ==
    /\ prog = "primes" /\ pc = "inner"
    /\ \E t \in {InnerStep(pr)} : pc' = t.pc /\ pr' = t.f
    /\ UNCHANGED <<prog, arg, wk, mb, call, first>>

IfPrime ==
    /\ prog = "primes" /\ pc = "if"
    /\ \E t \in {IfStep(pr)} : pc' = t.pc /\ pr' = t.f
    /\ UNCHANGED <<prog, arg, wk, mb, call, first>>

\* one evaluation of the outer loop's test together with the body it guards
WhilePass ==
    /\ prog = "primes" /\ pc = "outer"
    /\ \E t \in {RunToOuter(OuterStep(pr))} : pc' = t.pc /\ pr' = t.f
    /\ UNCHANGED <<prog, arg, wk, mb, call, first>>

\* the caller calls primes(kmax) a second time with the same argument
PrimesAgain ==
    /\ prog = "primes" /\ pc = "done" /\ call = 1
    /\ first' = pr.result
    /\ call' = 2
    /\ pr' = PrimesFrame(arg)
    /\ pc' = "cap"
    /\ UNCHANGED <<prog, arg, wk, mb>>

SmallKmax == (0 - 2) .. MaxKmax
CapKmax == {KmaxCap, KmaxCap + 1, 2 * KmaxCap}

InitPrimes(inputs) ==
    /\ prog = "primes"
    /\ arg \in inputs
    /\ pr = PrimesFrame(arg)
    /\ pc = "cap"
    /\ wk = WalkFrame(0)
    /\ mb = MandelFrame(<<>>, 0, 0, "python")
    /\ call = 1
    /\ first = <<>>

\* primes statement by statement, small arguments
InitPrimesSmall == InitPrimes(SmallKmax)
NextPrimes == Cap \/ OuterTest \/ InnerTest \/ IfPrime
SpecPrimes == InitPrimesSmall /\ [][NextPrimes]_vars

\* primes one outer-loop pass at a time, arguments around and above the cap
InitPrimesCap == InitPrimes(SmallKmax \cup CapKmax)
NextPrimesCap == Cap \/ WhilePass
SpecPrimesCap == InitPrimesCap /\ [][NextPrimesCap]_vars

(***************************************************************************)
(* step_numba() and walk_numba(n)                                          *)
(***************************************************************************)
\* random.random() returns a float in [0, 1); these draws lie on both sides
\* of the comparison with .5 and on it
Draws == {FDivInt(1, 4), FDivInt(1, 2), FDivInt(3, 4)}

\* return 1. if random.random() > .5 else -1.
step_numba(r) == IF FGt(r, FDivInt(5, 10)) THEN FInt(1) ELSE FInt(0 - 1)

\* the literal 5e-3
Threshold == FDivInt(5, 1000)

\* x = np.zeros(n): a negative length raises ValueError
ZerosStep(f) ==
    IF f.n < 0
    THEN [pc |-> "ValueError", f |-> f]
    ELSE [pc |-> "dx", f |-> [f EXCEPT !.x = [q \in 1..f.n |-> FZero]]]

\* faulty variant: the division unchecked, as under error_model='numpy'
DxStepUnchecked(f) ==
    [pc |-> "for",
     f  |-> [f EXCEPT !.dx = IF f.n = 0 THEN FZero ELSE FDivInt(1, f.n), !.i = 0]]

\* dx = 1. / n: division by zero raises ZeroDivisionError (Numba's default
\* error model is Python's)
DxStep(f) ==
    IF f.n = 0
    THEN [pc |-> "ZeroDivisionError", f |-> f]
    ELSE [pc |-> "for", f |-> [f EXCEPT !.dx = FDivInt(1, f.n), !.i = 0]]

\* faulty variant: range(n) in place of range(n - 1)
InRangeWhole(f) == f.i < f.n

\* the indices range(n - 1) still has to deliver
InRange(f) == f.i < f.n - 1

\* 0-based x[q] exists
Inside(f, q) == 0 <= q /\ q < Len(f.x)

\* faulty variant: the reset forgotten: x[i + 1] = x_new always
BodyNoReset(f, r) ==
    IF f.i < 0 \/ f.i + 1 >= Len(f.x)
    THEN [pc |-> "OutOfBounds", f |-> f]
    ELSE LET x_new == FAdd(f.x[f.i + 1], FMul(f.dx, step_numba(r)))
         IN  [pc |-> "for",
              f  |-> [f EXCEPT !.x_new = x_new, !.x[f.i + 2] = x_new,
                               !.i = f.i + 1]]

\* faulty variant: the step not scaled by dx: x_new = x[i] + step_numba()
BodyUnscaled(f, r) ==
    IF f.i < 0 \/ f.i + 1 >= Len(f.x)
    THEN [pc |-> "OutOfBounds", f |-> f]
    ELSE LET x_new == FAdd(f.x[f.i + 1], step_numba(r))
         IN  [pc |-> "for",
              f  |-> [f EXCEPT !.x_new = x_new,
                               !.x[f.i + 2] = IF FGt(x_new, Threshold)
                                              THEN FZero ELSE x_new,
                               !.i = f.i + 1]]

\* x_new = x[i] + dx * step_numba()
\* if x_new > 5e-3: x[i + 1] = 0.  else: x[i + 1] = x_new
\* nopython mode does not check array bounds: an access outside x is
\* undefined behaviour, kept apart as the outcome "OutOfBounds".
BodyStep(f, r) ==
    IF ~Inside(f, f.i) \/ ~Inside(f, f.i + 1)
    THEN [pc |-> "OutOfBounds", f |-> f]
    ELSE LET x_new == FAdd(f.x[f.i + 1], FMul(f.dx, step_numba(r)))
         IN  [pc |-> "for",
              f  |-> [f EXCEPT !.x_new = x_new,
                               !.x[f.i + 2] = IF FGt(x_new, Threshold)
                                              THEN FZero ELSE x_new,
                               !.i = f.i + 1]]

WalkZeros ==
    /\ prog = "walk" /\ pc = "zeros"
    /\ \E t \in {ZerosStep(wk)} : pc' = t.pc /\ wk' = t.f
    /\ UNCHANGED <<prog, arg, pr, mb, call, first>>

WalkDx ==
    /\ prog = "walk" /\ pc = "dx"
    /\ \E t \in {DxStep(wk)} : pc' = t.pc /\ wk' = t.f
    /\ UNCHANGED <<prog, arg, pr, mb, call, first>>

\* one iteration of for i in range(n - 1)
WalkIter ==
    /\ prog = "walk" /\ pc = "for" /\ InRange(wk)
    /\ \E r \in Draws : \E t \in {BodyStep(wk, r)} : pc' = t.pc /\ wk' = t.f
    /\ UNCHANGED <<prog, arg, pr, mb, call, first>>

\* return x
WalkReturn ==
    /\ prog = "walk" /\ pc = "for" /\ ~InRange(wk)
    /\ pc' = "return"
    /\ UNCHANGED <<prog, arg, pr, wk, mb, call, first>>

InitWalk ==
    /\ prog = "walk"
    /\ arg \in (0 - 2) .. MaxN
    /\ wk = WalkFrame(arg)
    /\ pc = "zeros"
    /\ pr = PrimesFrame(0)
    /\ mb = MandelFrame(<<>>, 0, 0, "python")
    /\ call = 1
    /\ first = <<>>

NextWalk == WalkZeros \/ WalkDx \/ WalkIter \/ WalkReturn
SpecWalk == InitWalk /\ [][NextWalk]_vars

(***************************************************************************)
(* mandelbrot_python(m, size, iterations) and mandelbrot_cython            *)
(***************************************************************************)
\* complex numbers are pairs of doubles; product and sum as CPython's
\* complex type and C's double complex compute them, every partial result
\* rounded
CMul(a, b) ==
    [re |-> FSub(FMul(a.re, b.re), FMul(a.im, b.im)),
     im |-> FAdd(FMul(a.re, b.im), FMul(a.im, b.re))]

CAdd(a, b) == [re |-> FAdd(a.re, b.re), im |-> FAdd(a.im, b.im)]

CReal(a) == [re |-> a, im |-> FZero]

\* c = -2 + 3./size*j + 1j*(1.5-3./size*i)
GridPoint(size, i, j) ==
    CAdd(CReal(FAdd(FInt(0 - 2), FMul(FDivInt(3, size), FInt(j)))),
         CMul([re |-> FZero, im |-> FInt(1)],
              CReal(FSub(FDivInt(3, 2), FMul(FDivInt(3, size), FInt(i))))))

\* the exact square of a double, unrounded
ExactSquare(a) == [neg |-> FALSE, m |-> BnMul(a.m, a.m), e |-> 2 * a.e]

\* the exact re^2 + im^2, unrounded
ExactNorm2(z) == ExactSum(ExactSquare(z.re), ExactSquare(z.im))

\* np.abs(z) <= 10: np.abs of a complex is hypot(re, im); its correctly
\* rounded value is at most 10 exactly when the true value is at most
\* 10 + 2^-50 (half a unit in the last place of 10, the tie going to 10)
AbsLe10(z) ==
    LET t     == BnAdd(BnShl(BnFromInt(10), 50), <<1>>)
        bound == [neg |-> TRUE, m |-> BnMul(t, t), e |-> 0 - 100]
        d     == ExactSum(ExactNorm2(z), bound)
    IN  d.neg \/ d.m = <<>>

\* z.real**2 + z.imag**2 <= 100, in doubles
Norm2Le100(z) ==
    FLe(FAdd(FMul(z.re, z.re), FMul(z.im, z.im)), FInt(100))

\* faulty variant: escape radius 2 in place of 10
WithinRadius2(variant, z) ==
    LET d == ExactSum(ExactNorm2(z), FInt(0 - 4)) IN d.neg \/ d.m = <<>>

\* the escape test of the variant: "python" is mandelbrot_python and the
\* first mandelbrot_cython (the same text), "cython" the typed one
Within(variant, z) ==
    IF variant = "python" THEN AbsLe10(z) ELSE Norm2Le100(z)

\* m = np.zeros((size, size)), by rows
ZeroGrid(size) == [a \in 1..size |-> [b \in 1..size |-> 0]]

\* for i in range(size):
ForIStep(f) ==
    IF f.i < f.size
    THEN [pc |-> "for_j", f |-> [f EXCEPT !.j = 0]]
    ELSE [pc |-> "done", f |-> f]

\* for j in range(size):  c = ... ; z = 0
ForJStep(f) ==
    IF f.j < f.size
    THEN [pc |-> "for_n",
          f  |-> [f EXCEPT !.c = GridPoint(f.size, f.i, f.j),
                           !.z = CReal(FZero), !.n = 0]]
    ELSE [pc |-> "for_i", f |-> [f EXCEPT !.i = f.i + 1]]

\* faulty variant: m[i, j] = n + 1: the count of iterations, not the index
ForNStepCount(f) ==
    IF f.n < f.iterations /\ Within(f.variant, f.z)
    THEN [pc |-> "for_n",
          f  |-> [f EXCEPT !.z = CAdd(CMul(f.z, f.z), f.c),
                           !.m[f.i + 1][f.j + 1] = f.n + 1,
                           !.n = f.n + 1]]
    ELSE [pc |-> "for_j", f |-> [f EXCEPT !.j = f.j + 1]]

\* faulty variant: m[i, j] += n
ForNStepAccumulate(f) ==
    IF f.n < f.iterations /\ Within(f.variant, f.z)
    THEN [pc |-> "for_n",
          f  |-> [f EXCEPT !.z = CAdd(CMul(f.z, f.z), f.c),
                           !.m[f.i + 1][f.j + 1] = @ + f.n,
                           !.n = f.n + 1]]
    ELSE [pc |-> "for_j", f |-> [f EXCEPT !.j = f.j + 1]]

\* for n in range(iterations):
\*     if <escape test>: z = z*z + c ; m[i, j] = n
\*     else: break
ForNStep(f) ==
    IF f.n < f.iterations /\ Within(f.variant, f.z)
    THEN [pc |-> "for_n",
          f  |-> [f EXCEPT !.z = CAdd(CMul(f.z, f.z), f.c),
                           !.m[f.i + 1][f.j + 1] = f.n,
                           !.n = f.n + 1]]
    ELSE [pc |-> "for_j", f |-> [f EXCEPT !.j = f.j + 1]]

ForI ==
    /\ prog = "mandelbrot" /\ pc = "for_i"
    /\ \E t \in {ForIStep(mb)} : pc' = t.pc /\ mb' = t.f
    /\ UNCHANGED <<prog, arg, pr, wk, call, first>>

ForJ ==
    /\ prog = "mandelbrot" /\ pc = "for_j"
    /\ \E t \in {ForJStep(mb)} : pc' = t.pc /\ mb' = t.f
    /\ UNCHANGED <<prog, arg, pr, wk, call, first>>

ForN ==
    /\ prog = "mandelbrot" /\ pc = "for_n"
    /\ \E t \in {ForNStep(mb)} : pc' = t.pc /\ mb' = t.f
    /\ UNCHANGED <<prog, arg, pr, wk, call, first>>

\* the caller runs the routine a second time with the same size and
\* iterations, on a fresh array or on the array the first run filled
MandelAgain ==
    /\ prog = "mandelbrot" /\ pc = "done" /\ call = 1
    /\ first' = mb.m
    /\ call' = 2
    /\ \E m0 \in {mb.m, ZeroGrid(arg.size)} :
           /\ arg' = [arg EXCEPT !.m = m0]
           /\ mb' = MandelFrame(m0, arg.size, arg.iterations, arg.variant)
    /\ pc' = "for_i"
    /\ UNCHANGED <<prog, pr, wk>>

InitMandel ==
    /\ prog = "mandelbrot"
    /\ \E size \in 1..MaxSize, iterations \in 1..MaxIter,
          variant \in {"python", "cython"} :
           arg = [m |-> ZeroGrid(size), size |-> size,
                  iterations |-> iterations, variant |-> variant]
    /\ mb = MandelFrame(arg.m, arg.size, arg.iterations, arg.variant)
    /\ pc = "for_i"
    /\ pr = PrimesFrame(0)
    /\ wk = WalkFrame(0)
    /\ call = 1
    /\ first = <<>>

NextMandel == ForI \/ ForJ \/ ForN
SpecMandel == InitMandel /\ [][NextMandel]_vars

\* each generator called twice by the caller
NextTwice == NextPrimes \/ PrimesAgain \/ NextMandel \/ MandelAgain
SpecTwice == (InitPrimesSmall \/ InitMandel) /\ [][NextTwice]_vars

(***************************************************************************)
(* Properties of walk_numba                                                *)
(***************************************************************************)
WalkErrors == {"ValueError", "ZeroDivisionError", "OutOfBounds"}

\* C4 (as claimed): for every n <= 1 walk_numba(n) has no error outcome and
\* returns a sequence of length 0 or 1.
C4_NoErrorForDegenerateN ==
    (prog = "walk" /\ arg <= 1) =>
        /\ pc \notin WalkErrors
        /\ pc = "return" => Len(wk.x) <= 1

\* C4 (amended): walk_numba(1) returns the one-element sequence [0.];
\* walk_numba(0) ends in ZeroDivisionError at dx = 1. / n and never returns;
\* walk_numba(n) for n < 0 ends in ValueError at np.zeros(n) and never returns.
C4_DegenerateOutcomes ==
    (prog = "walk" /\ arg <= 1) =>
        /\ arg = 1 => /\ pc \in {"zeros", "dx", "for", "return"}
                      /\ pc = "return" => wk.x = <<FZero>>
        /\ arg = 0 => pc \in {"zeros", "dx", "ZeroDivisionError"}
        /\ arg < 0 => pc \in {"zeros", "ValueError"}

C4_Witness ==
    prog = "walk" /\ arg = 1 /\ pc = "return" /\ wk.x = <<FZero>>

\* C5: for every n >= 1 and every sequence of draws, walk_numba(n) ends in no
\* error, the array has exactly n elements from its allocation to the
\* return, and element 0 is 0 throughout (no write outside indices 1..n-1).
C5_LengthAndFirst ==
    (prog = "walk" /\ arg >= 1) =>
        /\ pc \notin WalkErrors
        /\ pc \in {"dx", "for", "return"} =>
               /\ Len(wk.x) = arg
               /\ wk.x[1] = FZero

C5_Witness ==
    /\ prog = "walk" /\ arg >= 3 /\ pc = "return"
    /\ Len(wk.x) = arg
    /\ wk.x[arg] # FZero

WasReset(f, q) ==
    /\ f.x[q + 2] = FZero
    /\ \E s \in {f.dx, FNeg(f.dx)} : FGt(FAdd(f.x[q + 1], s), Threshold)

\* C7 (as claimed): for every written index, x[i+1] - x[i] is exactly +dx or
\* -dx (already in the weakest reading, the difference computed in floating
\* point), or a reset occurred at that step.
C7_ExactSteps ==
    (prog = "walk" /\ pc \in {"for", "return"}) =>
        \A q \in 0..(wk.i - 1) :
            \/ FSub(wk.x[q + 2], wk.x[q + 1]) \in {wk.dx, FNeg(wk.dx)}
            \/ WasReset(wk, q)

\* | (b - a) - s | <= 2^-54, all three taken exactly
WithinRounding(a, b, s) ==
    LET d   == ExactSum(ExactSum(b, FNeg(a)), FNeg(s))
        err == [neg |-> FALSE, m |-> d.m, e |-> d.e]
        t   == ExactSum(err, [neg |-> TRUE, m |-> <<1>>, e |-> 0 - 54])
    IN  t.neg \/ t.m = <<>>

\* C7 (amended): for every written index, x[i+1] - x[i] equals +dx or -dx up
\* to the rounding of one double-precision addition (at most 2^-54) and
\* x[i+1] does not exceed the threshold, or a reset occurred at that step.
C7_RoundedSteps ==
    (prog = "walk" /\ pc \in {"for", "return"}) =>
        \A q \in 0..(wk.i - 1) :
            \/ /\ \E s \in {wk.dx, FNeg(wk.dx)} :
                      WithinRounding(wk.x[q + 1], wk.x[q + 2], s)
               /\ ~FGt(wk.x[q + 2], Threshold)
            \/ WasReset(wk, q)

\* a step whose sum was rounded: the difference is not +-dx, within 2^-54
C7_Witness ==
    /\ prog = "walk" /\ pc = "return"
    /\ \E q \in 0..(wk.i - 1) :
           /\ FSub(wk.x[q + 2], wk.x[q + 1]) \notin {wk.dx, FNeg(wk.dx)}
           /\ ~WasReset(wk, q)
           /\ \E s \in {wk.dx, FNeg(wk.dx)} :
                  WithinRounding(wk.x[q + 1], wk.x[q + 2], s)

(***************************************************************************)
(* Properties of primes                                                    *)
(***************************************************************************)
\* x has no divisor d, d + 1, ... up to its square root (sixteen at a time)
RECURSIVE NoDivisorFrom(_, _)
NoDivisorFrom(x, d) ==
    IF d * d > x THEN TRUE
    ELSE /\ \A e \in d..(d + 15) : e * e > x \/ x % e # 0
         /\ NoDivisorFrom(x, d + 16)

IsPrime(x) == x >= 2 /\ NoDivisorFrom(x, 2)

Min(a, b) == IF a < b THEN a ELSE b
Max(a, b) == IF a > b THEN a ELSE b

\* C1: primes(kmax) returns exactly the first min(max(kmax, 0), 1000) primes
\* in ascending order: that many elements, strictly increasing, each prime,
\* no prime up to the last element missing; primes(5) = [2, 3, 5, 7, 11].
C1_FirstPrimes ==
    (prog = "primes" /\ pc = "done") =>
        LET r   == pr.result
            cnt == Min(Max(arg, 0), 1000)
        IN  /\ Len(r) = cnt
            /\ \A q \in 1..(Len(r) - 1) : r[q] < r[q + 1]
            /\ \A q \in 1..Len(r) : IsPrime(r[q])
            /\ Len(r) > 0 =>
                   {r[q] : q \in 1..Len(r)} = {y \in 2..r[Len(r)] : IsPrime(y)}
            /\ arg = 5 => r = <<2, 3, 5, 7, 11>>

C1_Witness ==
    /\ prog = "primes" /\ pc = "done" /\ arg = 2000
    /\ Len(pr.result) = 1000
    /\ pr.result[1] = 2
    /\ pr.result[1000] = 7919

\* C2: the output has exactly 1000 elements for kmax > 1000, exactly kmax
\* elements for 0 <= kmax <= 1000, and for kmax <= 0 it is empty and the
\* body of the outer loop is never entered (the candidate n never moves).
C2_LengthCapped ==
    prog = "primes" =>
        /\ pc = "done" =>
               /\ arg > 1000 => Len(pr.result) = 1000
               /\ (0 <= arg /\ arg <= 1000) => Len(pr.result) = arg
               /\ arg <= 0 => pr.result = <<>>
        /\ arg <= 0 =>
               /\ pc \in {"cap", "outer", "done"}
               /\ pr.n \in {0, 2}

C2_Witness ==
    /\ prog = "primes" /\ pc = "done" /\ arg = 1001
    /\ pr.kmax = 1000
    /\ Len(pr.result) = 1000

\* C10: at every evaluation of the outer and the inner loop condition,
\* k = len(p), p and result hold the same sequence and n exceeds every
\* element of p; p[i] is read only with 0 <= i < len(p), the divisor is
\* never 0, and neither IndexError nor ZeroDivisionError is ever raised.
C10_LoopInvariant ==
    prog = "primes" =>
        /\ pc \notin {"IndexError", "ZeroDivisionError"}
        /\ pc \in {"outer", "inner"} =>
               /\ pr.k = Len(pr.p)
               /\ pr.p = pr.result
               /\ \A q \in 1..Len(pr.p) : pr.n > pr.p[q]
        /\ (pc = "inner" /\ pr.i < pr.k) =>
               /\ 0 <= pr.i /\ pr.i < Len(pr.p)
               /\ pr.p[pr.i + 1] # 0

C10_Witness ==
    /\ prog = "primes" /\ pc = "inner"
    /\ pr.i >= 2 /\ pr.i < pr.k
    /\ pr.n % pr.p[pr.i + 1] = 0

(***************************************************************************)
(* Properties of the Mandelbrot routines                                   *)
(***************************************************************************)
\* |c| > 2, exactly
Outside2(c) ==
    LET d == ExactSum(ExactNorm2(c), FInt(0 - 4)) IN ~d.neg /\ d.m # <<>>

Cells(size) == (0..(size - 1)) \X (0..(size - 1))

\* z after n applications of z <- z*z + c to 0
RECURSIVE Orbit(_, _)
Orbit(c, n) ==
    IF n = 0 THEN CReal(FZero)
    ELSE LET z == Orbit(c, n - 1) IN CAdd(CMul(z, z), c)

\* the escape test passes on every one of the K iterations
NeverEscapes(variant, c, K) ==
    \A n \in 0..(K - 1) : Within(variant, Orbit(c, n))

\* C3 (as claimed): every cell whose point c has |c| > 2 holds 0 when the
\* routine is done, for every iteration budget K >= 1.
C3_EscapingCellsZero ==
    (prog = "mandelbrot" /\ pc = "done") =>
        \A ij \in Cells(arg.size) :
            Outside2(GridPoint(arg.size, ij[1], ij[2])) =>
                mb.m[ij[1] + 1][ij[2] + 1] = 0

\* C3 (amended): a cell whose point c has |c| > 2 holds 0 when the budget
\* is K = 1, and at least 1 for every budget K >= 2 (the escape test uses
\* the radius 10 and is passed by z = 0 and by z = c).
C3_EscapingCellsFirstIndex ==
    (prog = "mandelbrot" /\ pc = "done") =>
        \A ij \in Cells(arg.size) :
            Outside2(GridPoint(arg.size, ij[1], ij[2])) =>
                /\ arg.iterations = 1 => mb.m[ij[1] + 1][ij[2] + 1] = 0
                /\ arg.iterations >= 2 => mb.m[ij[1] + 1][ij[2] + 1] >= 1

C3_Witness ==
    /\ prog = "mandelbrot" /\ pc = "done"
    /\ arg.size = 2 /\ arg.iterations = 4
    /\ Outside2(GridPoint(2, 0, 0))
    /\ mb.m[1][1] = 2

\* C8: when the routine is done, a cell whose point passes the escape test
\* on every one of the K iterations holds K - 1; and no cell ever holds a
\* value greater than K - 1.
C8_NonEscapingKeepLast ==
    prog = "mandelbrot" =>
        /\ \A ij \in Cells(arg.size) :
               mb.m[ij[1] + 1][ij[2] + 1] <= arg.iterations - 1
        /\ pc = "done" =>
               \A ij \in Cells(arg.size) :
                   NeverEscapes(arg.variant,
                                GridPoint(arg.size, ij[1], ij[2]),
                                arg.iterations)
                       => mb.m[ij[1] + 1][ij[2] + 1] = arg.iterations - 1

\* the cell of c = 0 in the grid of side 6
C8_Witness ==
    /\ prog = "mandelbrot" /\ pc = "done"
    /\ arg.size = 6 /\ arg.iterations >= 3
    /\ GridPoint(6, 3, 4) = CReal(FZero)
    /\ NeverEscapes(arg.variant, GridPoint(6, 3, 4), arg.iterations)
    /\ mb.m[4][5] = arg.iterations - 1
    /\ \E ij \in Cells(6) : mb.m[ij[1] + 1][ij[2] + 1] < arg.iterations - 1

(***************************************************************************)
(* Calling twice                                                           *)
(***************************************************************************)
\* C9: a second call of primes with the same kmax returns what the first
\* returned, and a second run of the Mandelbrot routine with the same size
\* and iterations leaves the same grid as the first, also when it runs on
\* the array the first run filled.
C9_Idempotent ==
    call = 2 =>
        /\ (prog = "primes" /\ pc = "done") => pr.result = first
        /\ (prog = "mandelbrot" /\ pc = "done") => mb.m = first

\* the second run was given the array the first run had filled
C9_Witness ==
    /\ prog = "mandelbrot" /\ pc = "done" /\ call = 2
    /\ arg.m # ZeroGrid(arg.size)
    /\ arg.m = first
    /\ mb.m = first

====
